---------------------------- MODULE Spec2Model ----------------------------
(***************************************************************************)
(* Response-normalisation and validation layer of the Google Maps tool     *)
(* server: the six tools of src/server.py and the near-duplicate shapers   *)
(* of src/maps_agent.  Every tool validates its enum argument, makes one   *)
(* call to the mapping provider and reshapes the provider's answer.        *)
(*                                                                         *)
(* Representation of Python values                                         *)
(*   dict  : a function whose domain is the set of its keys (strings);     *)
(*           d['k'] on a missing key is a KeyError                         *)
(*   list  : a sequence; l[0] on an empty list is an IndexError            *)
(*   str   : a string; the step instructions, on which the text normaliser *)
(*           works character by character, are sequences of characters     *)
(*   None  : PyNone; a value that may be None is wrapped by Py             *)
(* A tool's outcome is a record [kind, val]:                               *)
(*   "json"  the text json.dumps(val) of the object val                    *)
(*   "str"   the plain string val                                          *)
(*   "none"  the function fell off its end and returned None               *)
(*   "raise" the exception val propagated out of the tool                  *)
(*   "imported" a module of src/maps_agent ran its statements to the end   *)
(***************************************************************************)
EXTENDS Naturals, Sequences, FiniteSets, TLC

VARIABLES
    procs,                \* the invocations that may run
    allowed_modes,        \* module-level list, src/server.py:25
    allowed_input_types,  \* module-level list, src/server.py:29
    gmaps,                \* the module-level provider client, src/server.py:19
    find_place_defaults,  \* the list object that is find_place's default for fields
    place_details_defaults, \* the list object that is place_details' default for fields
    pc,                   \* pc[p]: "idle", "awaiting" (provider call in flight), "done"
    tool,                 \* tool[p]: the tool invocation p runs
    args,                 \* args[p]: the caller's arguments
    calls,                \* calls[p]: the provider calls invocation p has made, in order
    resp,                 \* resp[p]: what the provider returned to invocation p
    printed,              \* printed[p]: what invocation p wrote with print()
    result                \* result[p]: the outcome of invocation p

vars == <<procs, allowed_modes, allowed_input_types, gmaps, find_place_defaults,
          place_details_defaults, pc, tool, args, calls, resp, printed, result>>

module_state == <<procs, allowed_modes, allowed_input_types, gmaps, find_place_defaults,
                  place_details_defaults>>

-----------------------------------------------------------------------------
(* Python values *)

PyNone == [py |-> "None"]
\* stands for a key a dict does not have
Absent == [py |-> "absent"]
Py(x) == [py |-> "obj", v |-> x]

\* bool(x) of a value that is None, a list or a dict
Truthy(x) == x.py = "obj" /\ DOMAIN x.v # {}

Range(s) == {s[i] : i \in DOMAIN s}

Json(obj) == [kind |-> "json", val |-> obj]
Str(s) == [kind |-> "str", val |-> s]
Raise(exc) == [kind |-> "raise", val |-> exc]
ReturnsNone == [kind |-> "none", val |-> ""]
NoResult == [kind |-> "pending", val |-> ""]

\* d.get(k, default)
Get(d, k, default) == IF k \in DOMAIN d THEN d[k] ELSE default

\* d['k']['text'] succeeds
HasText(d, k) == k \in DOMAIN d /\ "text" \in DOMAIN d[k]

-----------------------------------------------------------------------------
(* Validators *)

RECURSIVE ReprItems(_)
ReprItems(l) ==
    IF Len(l) = 0 THEN ""
    ELSE IF Len(l) = 1 THEN "'" \o l[1] \o "'"
    ELSE "'" \o l[1] \o "', " \o ReprItems(Tail(l))

\* str(list) of a list of plain strings: ['a', 'b']
ListRepr(l) == "[" \o ReprItems(l) \o "]"

\* a membership test that ignores the case of the first letter
assert_mode_any_case(mode, modes) == mode \in Range(modes) \cup {"Driving"}

\* the condition of the assert statement
assert_mode(mode, modes) == mode \in Range(modes)

\* a message that names the offending value but not the allowed set
assert_mode_message_value_only(mode, modes) ==
    "ERROR: '" \o mode \o "' is not one of the allowed modes"

\* the message of the AssertionError, str(e)
assert_mode_message(mode, modes) ==
    "ERROR: '" \o mode \o "' is not one of the allowed modes: " \o ListRepr(modes)

\* a membership test that ignores the case of the letters
assert_input_type_any_case(input_type, types) ==
    input_type \in Range(types) \cup {"TextQuery"}

assert_input_type(input_type, types) == input_type \in Range(types)

assert_input_type_message(input_type, types) ==
    "ERROR: '" \o input_type \o "' is not one of the allowed inpute types: "
        \o ListRepr(types)


\* json.dumps({"error": str(e)})
ErrorPayload(msg) == Json([error |-> msg])

-----------------------------------------------------------------------------
(* Text normaliser *)

\* the index of the '>' that closes a tag opened at s[1], or 0: '.' matches
\* no newline and '*?' stops at the first '>'
RECURSIVE TagEndFrom(_, _)
TagEndFrom(s, j) ==
    IF j > Len(s) THEN 0
    ELSE IF s[j] = ">" THEN j
    ELSE IF s[j] = "\n" THEN 0
    ELSE TagEndFrom(s, j + 1)

\* re.sub('<.*?>', ' ', s)
RECURSIVE SubTags(_)
SubTags(s) ==
    IF Len(s) = 0 THEN <<>>
    ELSE IF s[1] = "<" /\ TagEndFrom(s, 2) > 0
         THEN <<" ">> \o SubTags(SubSeq(s, TagEndFrom(s, 2) + 1, Len(s)))
         ELSE <<s[1]>> \o SubTags(Tail(s))

\* re.sub(r' {2,}', ' ', s)
RECURSIVE SubSpaces(_)
SubSpaces(s) ==
    IF Len(s) = 0 THEN <<>>
    ELSE IF Len(s) >= 2 /\ s[1] = " " /\ s[2] = " " THEN SubSpaces(Tail(s))
    ELSE <<s[1]>> \o SubSpaces(Tail(s))

\* a normaliser that collapses the spaces before it replaces the tags
strip_html_regex_spaces_first(html_text) == SubTags(SubSpaces(html_text))

strip_html_regex(html_text) == SubSpaces(SubTags(html_text))

-----------------------------------------------------------------------------
(* Directions shapers *)

NoDirections == "No directions found for the specified locations."

RECURSIVE AllSteps(_)
\* the steps of all legs, in leg order then step order
AllSteps(legs) ==
    IF Len(legs) = 0 THEN <<>> ELSE Head(legs).steps \o AllSteps(Tail(legs))

StepOk(step) ==
    /\ "html_instructions" \in DOMAIN step
    /\ HasText(step, "distance")
    /\ HasText(step, "duration")

LegOk(leg) ==
    /\ "steps" \in DOMAIN leg
    /\ \A k \in DOMAIN leg.steps : StepOk(leg.steps[k])

\* the exception the subscripts of the output literal and of the loops raise
\* on this route, "" when none does
RouteError(route, with_summary) ==
    IF with_summary /\ "summary" \notin DOMAIN route THEN "KeyError"
    ELSE IF "legs" \notin DOMAIN route THEN "KeyError"
    ELSE IF Len(route.legs) = 0 THEN "IndexError"
    ELSE IF ~HasText(route.legs[1], "distance") THEN "KeyError"
    ELSE IF ~HasText(route.legs[1], "duration") THEN "KeyError"
    ELSE IF \E j \in DOMAIN route.legs : ~LegOk(route.legs[j]) THEN "KeyError"
    ELSE ""

\* the list output["steps"] after the two loops; strip: the instruction goes
\* through strip_html_regex
OutputSteps(route, strip) ==
    LET steps == AllSteps(route.legs)
    IN  [k \in DOMAIN steps |->
            [instruction |-> IF strip THEN strip_html_regex(steps[k].html_instructions)
                                      ELSE steps[k].html_instructions,
             distance |-> steps[k].distance.text,
             duration |-> steps[k].duration.text]]

\* src/server.py get_directions: the output built from the first route
shortest_route_output(shortest_route) ==
    IF RouteError(shortest_route, TRUE) # ""
    THEN Raise(RouteError(shortest_route, TRUE))
    ELSE Json([summary |-> shortest_route.summary,
               total_distance |-> shortest_route.legs[1].distance.text,
               total_duration |-> shortest_route.legs[1].duration.text,
               steps |-> OutputSteps(shortest_route, FALSE)])

\* a shaper that also takes a first route without legs for "no directions"
get_directions_shape_needs_legs(results) ==
    IF Truthy(results) /\ Len(Get(results.v[1], "legs", <<>>)) > 0
    THEN shortest_route_output(results.v[1])
    ELSE Str(NoDirections)

\* src/server.py get_directions, from the provider's answer on
get_directions_shape(results) ==
    IF Truthy(results)
    THEN shortest_route_output(results.v[1])
    ELSE Str(NoDirections)

\* src/maps_agent/server.py get_directions and
\* src/maps_agent/gmaps/directions_v2.py DirectionTools.directions, from the
\* provider's answer on
agent_directions_shape(results) ==
    IF Truthy(results)
    THEN LET route == results.v[1]
         IN  IF RouteError(route, FALSE) # ""
             THEN Raise(RouteError(route, FALSE))
             ELSE Json([total_distance |-> route.legs[1].distance.text,
                        total_duration |-> route.legs[1].duration.text,
                        steps |-> OutputSteps(route, TRUE)])
    ELSE Str(NoDirections)


-----------------------------------------------------------------------------
(* Distance, geocode and places shapers of src/server.py *)

NoDistance == "No distance information found for the specified locations."
NoDistanceZeroResults ==
    "No distance information found for the specified locations (ZERO_RESULTS)."

\* a shaper that looks at the status of the first element before it looks
\* for the distance and duration fields
get_distance_shape_status_first(results) ==
    IF Truthy(results)
    THEN LET rows == Get(results.v, "rows", <<>>)
         IN  IF Len(rows) = 0 THEN Str(NoDistance)
             ELSE LET shortest_distance_elements == Get(rows[1], "elements", <<>>)
                  IN  IF Len(shortest_distance_elements) = 0 THEN Str(NoDistance)
                      ELSE LET element == shortest_distance_elements[1]
                           IN  IF "status" \in DOMAIN element /\ element.status = "ZERO_RESULTS"
                               THEN Str(NoDistanceZeroResults)
                               ELSE IF \/ "distance" \notin DOMAIN element
                                       \/ "duration" \notin DOMAIN element
                                    THEN Str(NoDistance)
                                    ELSE IF \/ "text" \notin DOMAIN element.distance
                                            \/ "text" \notin DOMAIN element.duration
                                         THEN Raise("KeyError")
                                         ELSE Json([total_distance |-> element.distance.text,
                                                    total_duration |-> element.duration.text])
    ELSE Str(NoDistance)

\* src/server.py get_distance, from the provider's answer on
get_distance_shape(results) ==
    IF Truthy(results)
    THEN LET rows == Get(results.v, "rows", <<>>)
         IN  IF Len(rows) = 0 THEN Str(NoDistance)
             ELSE LET shortest_distance_elements == Get(rows[1], "elements", <<>>)
                  IN  IF \/ Len(shortest_distance_elements) = 0
                         \/ "distance" \notin DOMAIN shortest_distance_elements[1]
                         \/ "duration" \notin DOMAIN shortest_distance_elements[1]
                      THEN Str(NoDistance)
                      ELSE LET element == shortest_distance_elements[1]
                           IN  IF "status" \in DOMAIN element /\ element.status = "ZERO_RESULTS"
                               THEN Str(NoDistanceZeroResults)
                               ELSE IF \/ "text" \notin DOMAIN element.distance
                                       \/ "text" \notin DOMAIN element.duration
                                    THEN Raise("KeyError")
                                    ELSE Json([total_distance |-> element.distance.text,
                                               total_duration |-> element.duration.text])
    ELSE Str(NoDistance)

AddressNotFound == "Address not found"

\* src/server.py get_geocode: the output built from the first result
geocode_output(geocode) ==
    IF \/ "geometry" \notin DOMAIN geocode
       \/ "location" \notin DOMAIN geocode.geometry
       \/ "lat" \notin DOMAIN geocode.geometry.location
       \/ "lng" \notin DOMAIN geocode.geometry.location
    THEN Raise("KeyError")
    ELSE Json([lat |-> geocode.geometry.location.lat,
               lng |-> geocode.geometry.location.lng])

\* a shaper that reports "not found" as an error object
get_geocode_shape_not_found_as_error(results) ==
    IF Truthy(results) THEN geocode_output(results.v[1]) ELSE ErrorPayload(AddressNotFound)

\* src/server.py get_geocode, from the provider's answer on
get_geocode_shape(results) ==
    IF Truthy(results) THEN geocode_output(results.v[1]) ELSE Str(AddressNotFound)

NoSuchPlace == "No such place found"

\* src/server.py find_place and src/maps_agent/gmaps/places.py find_place,
\* from the provider's answer on; a missing 'candidates' makes the subscript
\* [0] act on the default {}, a KeyError the except clause does not catch
find_place_shape(results) ==
    IF Truthy(results)
    THEN IF "candidates" \notin DOMAIN results.v THEN Raise("KeyError")
         ELSE IF Len(results.v.candidates) = 0 THEN Str(NoSuchPlace)
         ELSE LET place == results.v.candidates[1]
              IN  IF \/ "name" \notin DOMAIN place
                     \/ "place_id" \notin DOMAIN place
                     \/ "formatted_address" \notin DOMAIN place
                     \/ "geometry" \notin DOMAIN place
                     \/ "location" \notin DOMAIN place.geometry
                     \/ "types" \notin DOMAIN place
                  THEN Raise("KeyError")
                  ELSE Json([name |-> place.name,
                             place_id |-> place.place_id,
                             formatted_address |-> place.formatted_address,
                             location |-> place.geometry.location,
                             types |-> place.types,
                             rating |-> Get(place, "rating", PyNone)])
    ELSE ReturnsNone

NothingNearby == "Nothing nearby that matches the search criteria was found."

\* a mapping in which the first place of a name keeps its entry
NearbyOutputFirstWins(places_nearby) ==
    [n \in {places_nearby[i].name : i \in DOMAIN places_nearby} |->
        LET first == CHOOSE i \in DOMAIN places_nearby :
                         /\ places_nearby[i].name = n
                         /\ \A j \in DOMAIN places_nearby :
                                places_nearby[j].name = n => i <= j
        IN  places_nearby[first].place_id]

\* the dict output after the loop over places_nearby: every name mapped to
\* the place_id assigned to it last
NearbyOutput(places_nearby) ==
    [n \in {places_nearby[i].name : i \in DOMAIN places_nearby} |->
        LET last == CHOOSE i \in DOMAIN places_nearby :
                        /\ places_nearby[i].name = n
                        /\ \A j \in DOMAIN places_nearby :
                               places_nearby[j].name = n => j <= i
        IN  places_nearby[last].place_id]

\* a shaper that answers an empty results list with the sentinel string
place_nearby_shape_collapses_empty(results) ==
    IF Truthy(results) /\ Len(Get(results.v, "results", <<>>)) > 0
    THEN LET places_nearby == results.v.results
         IN  IF \E i \in DOMAIN places_nearby :
                    \/ "name" \notin DOMAIN places_nearby[i]
                    \/ "place_id" \notin DOMAIN places_nearby[i]
             THEN Raise("KeyError")
             ELSE Json(NearbyOutput(places_nearby))
    ELSE Str(NothingNearby)

\* src/server.py place_nearby, from the provider's answer on
place_nearby_shape(results) ==
    IF Truthy(results)
    THEN LET places_nearby == Get(results.v, "results", <<>>)
         IN  IF \E i \in DOMAIN places_nearby :
                    \/ "name" \notin DOMAIN places_nearby[i]
                    \/ "place_id" \notin DOMAIN places_nearby[i]
             THEN Raise("KeyError")
             ELSE Json(NearbyOutput(places_nearby))
    ELSE Str(NothingNearby)

NoSuchPlaceDetails == "No such place found."
NoDetails == "No details found for the specified place."
EssentialMissing == "Essential place details (e.g. name) are missing."

DetailFields == {"name", "formatted_address", "formatted_phone_number", "website",
                 "types", "rating", "user_ratings_total"}

\* details.get(k), and details.get('user_ratings_total', 0)
DetailGet(details, k) ==
    Get(details, k, IF k = "user_ratings_total" THEN Py(0) ELSE PyNone)

\* bool(x) of a value that is None or a string
TruthyStr(x) == x.py = "obj" /\ x.v # ""

\* a shaper that looks for the name before it looks for an empty result object
place_details_shape_name_first(results) ==
    IF Truthy(results)
    THEN LET details == Get(results.v, "result", <<>>)
         IN  IF ~TruthyStr(DetailGet(details, "name")) THEN Str(EssentialMissing)
             ELSE Json([k \in {f \in DetailFields : DetailGet(details, f) # PyNone} |->
                           DetailGet(details, k).v])
    ELSE Str(NoSuchPlaceDetails)

\* src/server.py place_details, from the provider's answer on
place_details_shape(results) ==
    IF Truthy(results)
    THEN LET details == Get(results.v, "result", <<>>)
         IN  IF DOMAIN details = {} THEN Str(NoDetails)
             ELSE LET kept == {k \in DetailFields : DetailGet(details, k) # PyNone}
                      output == [k \in kept |-> DetailGet(details, k).v]
                  IN  IF ~TruthyStr(DetailGet(details, "name"))
                      THEN Str(EssentialMissing)
                      ELSE Json(output)
    ELSE Str(NoSuchPlaceDetails)

\* src/maps_agent/gmaps/places.py place_details, from the provider's answer
\* on: name, formatted_address, geometry.location and types are read by
\* direct index, the other fields with .get, and null values are emitted
places_place_details_shape(results) ==
    IF Truthy(results)
    THEN LET place_details == Get(results.v, "result", <<>>)
         IN  IF \/ "name" \notin DOMAIN place_details
                \/ "formatted_address" \notin DOMAIN place_details
                \/ "geometry" \notin DOMAIN place_details
             THEN Raise("KeyError")
             ELSE IF place_details.geometry = PyNone THEN Raise("TypeError")
             ELSE IF \/ "location" \notin DOMAIN place_details.geometry.v
                     \/ "types" \notin DOMAIN place_details
             THEN Raise("KeyError")
             ELSE Json([name |-> place_details.name,
                        formatted_address |-> place_details.formatted_address,
                        location |-> place_details.geometry.v.location,
                        formatted_phone_number |->
                            Get(place_details, "formatted_phone_number", PyNone),
                        website |-> Get(place_details, "website", PyNone),
                        types |-> place_details.types,
                        rating |-> Get(place_details, "rating", PyNone),
                        user_ratings_total |->
                            Get(place_details, "user_ratings_total", Py(0))])
    ELSE Str(NoSuchPlaceDetails)

\* the function a statement of the import of places.py calls, from the
\* provider's answer on
ScriptShape(fn, results) ==
    CASE fn = "find_place" -> find_place_shape(results)
      [] fn = "place_details" -> places_place_details_shape(results)
      [] fn = "place_nearby" -> place_nearby_shape(results)

\* the module has run to its end
Imported == [kind |-> "imported", val |-> ""]

-----------------------------------------------------------------------------
(* Inputs: the caller's arguments and the provider's answers *)

MaxLegs == 2
MaxSteps == 2
MaxLater == 1
MaxPlaces == 2

Addresses == {"Oz", "Wonderland"}
Modes == {"driving", "walking", "bicycling", "transit", "flying", "Driving", ""}

\* origin and destination
Trips == {<<o, d>> \in Addresses \X Addresses : o # d}

\* the caller's keyword arguments; mode may be omitted
DirectionArgs ==
    {("origin" :> t[1] @@ "destination" :> t[2]) : t \in Trips}
    \cup {("origin" :> t[1] @@ "destination" :> t[2] @@ "mode" :> m) :
             t \in Trips, m \in Modes}

\* the lists that start with first and go on with at most MaxLater entries,
\* each the entry later
WithLater(first, later) ==
    {<<first>> \o [i \in 1..n |-> later] : n \in 0..MaxLater}

\* the value of parameter k: the caller's, or the default of the signature
Param(a, k, default) == IF k \in DOMAIN a THEN a[k] ELSE default

Field(k, v, keep) == IF keep THEN k :> v ELSE <<>>

\* a {"text": .., "value": ..} object under key k, without the key or without
\* its text when the defect d names site or site.text at this position
TextField(k, text, n, site, j, i, d) ==
    IF d = [site |-> site, leg |-> j, step |-> i] THEN <<>>
    ELSE k :> (Field("text", text, d # [site |-> site \o ".text", leg |-> j, step |-> i])
               @@ "value" :> n)

Instructions ==
    << <<"G", "o">>,
       <<"<", "b", ">", "L", "<", "/", "b", ">">>,
       <<"a", " ", " ", "b">> >>

InstructionAt(j, i) ==
    Instructions[(((j - 1) * (MaxSteps + 1) + (i - 1)) % Len(Instructions)) + 1]

NoDefect == [site |-> "none", leg |-> 0, step |-> 0]

\* step i of leg j of the sample route
SampleStep(j, i, d) ==
    Field("html_instructions", InstructionAt(j, i),
          d # [site |-> "step.html_instructions", leg |-> j, step |-> i])
    @@ TextField("distance", ToString(10 * j + i) \o " km", 10 * j + i,
                 "step.distance", j, i, d)
    @@ TextField("duration", ToString(10 * j + i) \o " mins", 10 * j + i,
                 "step.duration", j, i, d)

\* leg j of the sample route, with n steps
SampleLeg(j, n, d) ==
    TextField("distance", ToString(100 * j) \o " km", 100 * j, "leg.distance", j, 0, d)
    @@ TextField("duration", ToString(100 * j) \o " mins", 100 * j, "leg.duration", j, 0, d)
    @@ Field("steps", [i \in 1..n |-> SampleStep(j, i, d)],
             d # [site |-> "leg.steps", leg |-> j, step |-> 0])

\* a route with Len(shape) legs, leg j of shape[j] steps, every text distinct,
\* complete but for the field the defect d names
SampleRoute(shape, d) ==
    Field("summary", "US-101 S", d # [site |-> "summary", leg |-> 0, step |-> 0])
    @@ Field("legs", [j \in 1..Len(shape) |-> SampleLeg(j, shape[j], d)],
             d # [site |-> "legs", leg |-> 0, step |-> 0])

RouteShapes == UNION {[1..n -> 0..MaxSteps] : n \in 0..MaxLegs}

LegSites == {"leg.distance", "leg.distance.text", "leg.duration",
             "leg.duration.text", "leg.steps"}
StepSites == {"step.html_instructions", "step.distance", "step.distance.text",
              "step.duration", "step.duration.text"}

\* no field missing, or exactly one
Defects(shape) ==
    {NoDefect}
    \cup {[site |-> s, leg |-> 0, step |-> 0] : s \in {"summary", "legs"}}
    \cup {[site |-> s, leg |-> j, step |-> 0] : s \in LegSites, j \in 1..Len(shape)}
    \cup {d \in [site : StepSites, leg : 1..Len(shape), step : 1..MaxSteps] :
             d.step <= shape[d.leg]}

FirstRoutes ==
    UNION {{SampleRoute(shape, d) : d \in Defects(shape)} : shape \in RouteShapes}

\* a route that follows the first one in the provider's list
LaterRoute ==
    [summary |-> "I-5 N",
     legs |-> << [distance |-> [text |-> "999 km", value |-> 999],
                  duration |-> [text |-> "999 mins", value |-> 999],
                  steps |-> << [html_instructions |-> <<"<", "i", ">">>,
                                distance |-> [text |-> "999 km", value |-> 999],
                                duration |-> [text |-> "999 mins", value |-> 999]] >>] >>]

\* what gmaps.directions may return: None, no route, or routes
DirectionsResponses ==
    {PyNone, Py(<<>>)}
    \cup UNION {{Py(l) : l \in WithLater(r, LaterRoute)} : r \in FirstRoutes}

\* the first element of the first row of a distance matrix: distance and
\* duration absent, without text or complete; status absent or given
TextObjects(text, n) == {Absent, Py([value |-> n]), Py([text |-> text, value |-> n])}

OptionalField(k, x) == IF x = Absent THEN <<>> ELSE k :> x.v

FirstElements ==
    {OptionalField("distance", dist) @@ OptionalField("duration", dur)
         @@ OptionalField("status", st) :
        dist \in TextObjects("100 km", 100),
        dur \in TextObjects("60 mins", 60),
        st \in {Absent, Py("OK"), Py("ZERO_RESULTS"), Py("NOT_FOUND")}}

LaterElement ==
    [distance |-> [text |-> "999 km", value |-> 999],
     duration |-> [text |-> "999 mins", value |-> 999],
     status |-> "OK"]

FirstRows ==
    {<<>>, [elements |-> <<>>]}
    \cup UNION {{[elements |-> l] : l \in WithLater(e, LaterElement)} : e \in FirstElements}

LaterRow == [elements |-> <<LaterElement>>]

\* what gmaps.distance_matrix may return
DistanceResponses ==
    {PyNone, Py(<<>>), Py([status |-> "INVALID_REQUEST"]), Py([rows |-> <<>>, status |-> "OK"])}
    \cup UNION {{Py([rows |-> l, status |-> "OK"]) : l \in WithLater(r, LaterRow)} :
                   r \in FirstRows}

\* the first result of a geocoding answer, with any part of its geometry missing
FirstGeocodes ==
    {<<>>, [geometry |-> <<>>]}
    \cup {[geometry |-> [location |-> OptionalField("lat", lat) @@ OptionalField("lng", lng)]] :
             lat \in {Absent, Py(43), Py(37)}, lng \in {Absent, Py(80), Py(122)}}

LaterGeocode == [geometry |-> [location |-> [lat |-> 1, lng |-> 2]]]

\* what gmaps.geocode may return
GeocodeResponses ==
    {PyNone, Py(<<>>)}
    \cup UNION {{Py(l) : l \in WithLater(g, LaterGeocode)} : g \in FirstGeocodes}

GeocodeArgs == {[address |-> a] : a \in Addresses}

InputTypes == {"textquery", "phonenumber", "address", "TextQuery", ""}

default_find_place_fields ==
    <<"place_id", "formatted_address", "name", "geometry", "types", "rating">>

\* the caller's keyword arguments; input_type and fields may be omitted
FindPlaceArgs ==
    {[input |-> i] @@ OptionalField("input_type", t) @@ OptionalField("fields", f) :
        i \in {"Googleplex", "+14162928742"},
        t \in {Absent} \cup {Py(x) : x \in InputTypes},
        f \in {Absent, Py(<<"name", "place_id">>)}}

\* the first candidate of a place search, any subset of its fields missing
FirstCandidates ==
    {OptionalField("name", n) @@ OptionalField("place_id", id)
         @@ OptionalField("formatted_address", ad) @@ OptionalField("geometry", g)
         @@ OptionalField("types", ty) @@ OptionalField("rating", ra) :
        n \in {Absent, Py("Googleplex")},
        id \in {Absent, Py("p1")},
        ad \in {Absent, Py("1600 Amphitheatre Pkwy")},
        g \in {Absent, Py(<<>>), Py([location |-> [lat |-> 37, lng |-> 122]])},
        ty \in {Absent, Py(<<"point_of_interest">>)},
        ra \in {Absent, Py(Py(4))}}

LaterCandidate ==
    [name |-> "Other", place_id |-> "p9", formatted_address |-> "9 Main St",
     geometry |-> [location |-> [lat |-> 1, lng |-> 2]], types |-> <<"cafe">>,
     rating |-> Py(1)]

\* what gmaps.find_place may return
FindPlaceResponses ==
    {PyNone, Py(<<>>), Py([status |-> "INVALID_REQUEST"]),
     Py([candidates |-> <<>>, status |-> "ZERO_RESULTS"])}
    \cup UNION {{Py([candidates |-> l, status |-> "OK"]) : l \in WithLater(c, LaterCandidate)} :
                   c \in FirstCandidates}

NearbyArgs ==
    {[location |-> [lat |-> 43, lng |-> 80], radius |-> r, place_type |-> t] :
        r \in {1000, 2500}, t \in {"hotel"}}

\* a nearby place: name and place_id, either may be missing
NearbyPlaces ==
    {OptionalField("name", n) @@ OptionalField("place_id", id) :
        n \in {Absent, Py("Cafe"), Py("error")},
        id \in {Absent, Py("p1"), Py("p2")}}

\* what gmaps.places_nearby may return
NearbyResponses ==
    {PyNone, Py(<<>>), Py([status |-> "INVALID_REQUEST"])}
    \cup {Py([results |-> l, status |-> "OK"]) :
             l \in UNION {[1..n -> NearbyPlaces] : n \in 0..MaxPlaces}}

default_place_details_fields ==
    <<"name", "formatted_address", "formatted_phone_number", "website", "types",
      "rating", "user_ratings_total">>

DetailsArgs ==
    {[place_id |-> "p1"] @@ OptionalField("fields", f) :
        f \in {Absent, Py(<<"name", "rating">>)}}

\* the result object of a place-details answer: every field absent, null or set
PlaceDetails ==
    {OptionalField("name", n) @@ OptionalField("formatted_address", ad)
         @@ OptionalField("formatted_phone_number", ph) @@ OptionalField("website", w)
         @@ OptionalField("types", ty) @@ OptionalField("rating", ra)
         @@ OptionalField("user_ratings_total", u) @@ OptionalField("url", url)
         @@ OptionalField("geometry", g) :
        n \in {Absent, Py(PyNone), Py(Py("Cafe")), Py(Py(""))},
        ad \in {Absent, Py(Py("9 Main St"))},
        ph \in {Absent, Py(PyNone), Py(Py("555-0100"))},
        w \in {Absent, Py(Py("https://cafe.example"))},
        ty \in {Absent, Py(Py(<<"cafe">>))},
        ra \in {Absent, Py(Py(4))},
        u \in {Absent, Py(PyNone), Py(Py(0)), Py(Py(12))},
        url \in {Absent, Py(Py("https://maps.example/p1"))},
        g \in {Absent, Py(Py(<<>>)), Py(Py([location |-> [lat |-> 1, lng |-> 2]]))}}

\* what gmaps.place may return
DetailsResponses ==
    {PyNone, Py(<<>>), Py([status |-> "NOT_FOUND"])}
    \cup {Py([result |-> d, status |-> "OK"]) : d \in PlaceDetails}

\* the answer the provider gives when it has something to give
GoodAnswer(t) ==
    CASE t = "get_directions" -> Py(<<SampleRoute(<<1>>, NoDefect)>>)
      [] t = "get_distance" ->
             Py([rows |-> <<[elements |->
                               <<[distance |-> [text |-> "100 km", value |-> 100],
                                  duration |-> [text |-> "60 mins", value |-> 60]]>>]>>,
                 status |-> "OK"])
      [] t = "get_geocode" -> Py(<<[geometry |-> [location |-> [lat |-> 43, lng |-> 80]]]>>)
      [] t = "find_place" ->
             Py([candidates |->
                     <<[name |-> "Googleplex", place_id |-> "p1",
                        formatted_address |-> "1600 Amphitheatre Pkwy",
                        geometry |-> [location |-> [lat |-> 37, lng |-> 122]],
                        types |-> <<"point_of_interest">>, rating |-> Py(4)]>>,
                 status |-> "OK"])
      [] t = "place_nearby" ->
             Py([results |-> <<[name |-> "Cafe", place_id |-> "p1"]>>, status |-> "OK"])
      [] t = "place_details" -> Py([result |-> [name |-> Py("Cafe")], status |-> "OK"])

\* the answers followed: nothing, or the good answer
FewAnswers(t) == {PyNone, GoodAnswer(t)}

\* the arguments of geocoding of src/maps_agent/gmaps/geocoding.py: address,
\* destination and, optionally, mode
GeocodingArgs ==
    {("address" :> t[1] @@ "destination" :> t[2]) : t \in Trips}
    \cup {("address" :> t[1] @@ "destination" :> t[2] @@ "mode" :> m) :
             t \in Trips, m \in Modes}

\* src/maps_agent/gmaps/places.py place_details: the default of fields
default_places_place_details_fields ==
    <<"name", "formatted_address", "formatted_phone_number", "geometry", "website",
      "types", "rating", "user_ratings_total">>

\* the statements of src/maps_agent/gmaps/places.py that run when the module
\* is imported: print(<heading>) where there is one, then print(fn(...)),
\* whose provider call is gmaps.<method>(*pos).  Floats are written as their
\* decimal text.
PlacesScript ==
    <<[fn |-> "find_place", heading |-> <<"FIND PLACE">>, method |-> "find_place",
       pos |-> <<"+14162928742", "phonenumber", default_find_place_fields>>],
      [fn |-> "find_place", heading |-> <<>>, method |-> "find_place",
       pos |-> <<"Googleplex", "textquery", default_find_place_fields>>],
      [fn |-> "find_place", heading |-> <<>>, method |-> "find_place",
       pos |-> <<"Coffee shop", "textquery", default_find_place_fields>>],
      [fn |-> "find_place", heading |-> <<>>, method |-> "find_place",
       pos |-> <<"My current location", "textquery", default_find_place_fields>>],
      [fn |-> "place_details", heading |-> <<"PLACE DETAILS">>, method |-> "place",
       pos |-> <<"ChIJr6vaxLHW1IkRgrdDqsWyvN4", default_places_place_details_fields>>],
      [fn |-> "place_nearby", heading |-> <<"PLACES NEARBY">>, method |-> "places_nearby",
       pos |-> <<[lat |-> "43.4730414", lng |-> "-80.53952389999999"], "1000", "hotel">>]>>

\* the answers followed while the module is imported: nothing, an answer
\* with a status only, or a complete answer
ScriptAnswers(fn) ==
    {PyNone, Py([status |-> "INVALID_REQUEST"])}
    \cup CASE fn = "find_place" -> {GoodAnswer("find_place")}
           [] fn = "place_nearby" -> {GoodAnswer("place_nearby")}
           [] fn = "place_details" ->
                  {Py([result |-> [name |-> Py("Cafe"),
                                   formatted_address |-> Py("9 Main St"),
                                   geometry |-> Py([location |-> [lat |-> 1, lng |-> 2]]),
                                   types |-> Py(<<"cafe">>),
                                   rating |-> Py(4)],
                       status |-> "OK"])}

\* googlemaps.Client(key=google_maps_api_key)
Client == [key |-> "GOOGLE_MAPS_API_KEY"]

-----------------------------------------------------------------------------
(* The invocations *)

Begin(p, t, a) ==
    /\ tool' = [tool EXCEPT ![p] = t]
    /\ args' = [args EXCEPT ![p] = a]

\* the call gmaps.<method>(*pos, **kw) is made and the invocation waits for it
CallProvider(p, method, pos, kw) ==
    /\ calls' = [calls EXCEPT ![p] = Append(@, [method |-> method, pos |-> pos, kw |-> kw])]
    /\ pc' = [pc EXCEPT ![p] = "awaiting"]
    /\ UNCHANGED result

\* an ending that writes the outcome into every invocation's slot
Finish_every_slot(p, r) ==
    /\ result' = [q \in procs |-> r]
    /\ pc' = [pc EXCEPT ![p] = "done"]

\* the invocation ends with outcome r
Finish(p, r) ==
    /\ result' = [result EXCEPT ![p] = r]
    /\ pc' = [pc EXCEPT ![p] = "done"]

Awaiting(p, t) == pc[p] = "awaiting" /\ tool[p] = t

ProviderReturns(p, r) == resp' = [resp EXCEPT ![p] = r]

\* src/server.py get_directions, up to the call of the provider
get_directions_call(p) ==
    /\ pc[p] = "idle"
    /\ \E a \in DirectionArgs :
        LET mode == Param(a, "mode", "driving")
        IN  /\ Begin(p, "get_directions", a)
            /\ IF assert_mode(mode, allowed_modes)
               THEN CallProvider(p, "directions", <<a.origin, a.destination, mode>>, <<>>)
               ELSE /\ Finish(p, ErrorPayload(assert_mode_message(mode, allowed_modes)))
                    /\ UNCHANGED calls
            /\ UNCHANGED <<module_state, resp, printed>>

\* src/server.py get_directions, from the provider's answer on
get_directions_answered(p, answers) ==
    /\ Awaiting(p, "get_directions")
    /\ \E results \in answers :
        /\ ProviderReturns(p, results)
        /\ Finish(p, get_directions_shape(results))
    /\ UNCHANGED <<module_state, tool, args, calls, printed>>

\* the provider's answer is any of those it may give
get_directions_return(p) == get_directions_answered(p, DirectionsResponses)

\* the print-and-continue validation of the src/maps_agent call sites, then
\* the call gmaps.directions(origin, destination, mode=mode)
AgentDirectionsCall(p, t) ==
    /\ pc[p] = "idle"
    /\ \E a \in DirectionArgs :
        LET mode == Param(a, "mode", "driving")
        IN  /\ Begin(p, t, a)
            /\ printed' = [printed EXCEPT ![p] =
                              IF assert_mode(mode, allowed_modes) THEN @
                              ELSE Append(@, assert_mode_message(mode, allowed_modes))]
            /\ CallProvider(p, "directions", <<a.origin, a.destination>>, [mode |-> mode])
            /\ UNCHANGED <<module_state, resp>>

AgentDirectionsAnswered(p, t, answers) ==
    /\ Awaiting(p, t)
    /\ \E results \in answers :
        /\ ProviderReturns(p, results)
        /\ Finish(p, agent_directions_shape(results))
    /\ UNCHANGED <<module_state, tool, args, calls, printed>>

\* the provider's answer is any of those it may give
AgentDirectionsReturn(p, t) == AgentDirectionsAnswered(p, t, DirectionsResponses)

\* src/maps_agent/server.py get_directions
agent_get_directions_call(p) == AgentDirectionsCall(p, "agent.get_directions")
agent_get_directions_return(p) == AgentDirectionsReturn(p, "agent.get_directions")

\* src/maps_agent/gmaps/directions_v2.py DirectionTools.directions
DirectionTools_directions_call(p) == AgentDirectionsCall(p, "DirectionTools.directions")
DirectionTools_directions_return(p) == AgentDirectionsReturn(p, "DirectionTools.directions")

\* src/server.py get_distance, up to the call of the provider
get_distance_call(p) ==
    /\ pc[p] = "idle"
    /\ \E a \in DirectionArgs :
        LET mode == Param(a, "mode", "driving")
        IN  /\ Begin(p, "get_distance", a)
            /\ IF assert_mode(mode, allowed_modes)
               THEN CallProvider(p, "distance_matrix", <<a.origin, a.destination, mode>>, <<>>)
               ELSE /\ Finish(p, ErrorPayload(assert_mode_message(mode, allowed_modes)))
                    /\ UNCHANGED calls
    /\ UNCHANGED <<module_state, resp, printed>>

get_distance_answered(p, answers) ==
    /\ Awaiting(p, "get_distance")
    /\ \E results \in answers :
        /\ ProviderReturns(p, results)
        /\ Finish(p, get_distance_shape(results))
    /\ UNCHANGED <<module_state, tool, args, calls, printed>>

\* the provider's answer is any of those it may give
get_distance_return(p) == get_distance_answered(p, DistanceResponses)

\* src/server.py get_geocode: no validation, the provider is called at once
get_geocode_call(p) ==
    /\ pc[p] = "idle"
    /\ \E a \in GeocodeArgs :
        /\ Begin(p, "get_geocode", a)
        /\ CallProvider(p, "geocode", <<a.address>>, <<>>)
    /\ UNCHANGED <<module_state, resp, printed>>

get_geocode_answered(p, answers) ==
    /\ Awaiting(p, "get_geocode")
    /\ \E results \in answers :
        /\ ProviderReturns(p, results)
        /\ Finish(p, get_geocode_shape(results))
    /\ UNCHANGED <<module_state, tool, args, calls, printed>>

\* the provider's answer is any of those it may give
get_geocode_return(p) == get_geocode_answered(p, GeocodeResponses)

\* src/server.py find_place, up to the call of the provider
find_place_call(p) ==
    /\ pc[p] = "idle"
    /\ \E a \in FindPlaceArgs :
        LET input_type == Param(a, "input_type", "textquery")
            fields == Param(a, "fields", find_place_defaults)
        IN  /\ Begin(p, "find_place", a)
            /\ IF assert_input_type(input_type, allowed_input_types)
               THEN CallProvider(p, "find_place", <<a.input, input_type, fields>>, <<>>)
               ELSE /\ Finish(p, ErrorPayload(
                                  assert_input_type_message(input_type, allowed_input_types)))
                    /\ UNCHANGED calls
    /\ UNCHANGED <<module_state, resp, printed>>

find_place_answered(p, answers) ==
    /\ Awaiting(p, "find_place")
    /\ \E results \in answers :
        /\ ProviderReturns(p, results)
        /\ Finish(p, find_place_shape(results))
    /\ UNCHANGED <<module_state, tool, args, calls, printed>>

\* the provider's answer is any of those it may give
find_place_return(p) == find_place_answered(p, FindPlaceResponses)

\* src/maps_agent/gmaps/places.py find_place: print-and-continue validation
places_find_place_call(p) ==
    /\ pc[p] = "idle"
    /\ \E a \in FindPlaceArgs :
        LET input_type == Param(a, "input_type", "textquery")
            fields == Param(a, "fields", default_find_place_fields)
        IN  /\ Begin(p, "places.find_place", a)
            /\ printed' = [printed EXCEPT ![p] =
                              IF assert_input_type(input_type, allowed_input_types) THEN @
                              ELSE Append(@, assert_input_type_message(
                                                 input_type, allowed_input_types))]
            /\ CallProvider(p, "find_place", <<a.input, input_type, fields>>, <<>>)
    /\ UNCHANGED <<module_state, resp>>

places_find_place_return(p) ==
    /\ Awaiting(p, "places.find_place")
    /\ \E results \in FindPlaceResponses :
        /\ ProviderReturns(p, results)
        /\ Finish(p, find_place_shape(results))
    /\ UNCHANGED <<module_state, tool, args, calls, printed>>

\* src/server.py place_nearby
place_nearby_call(p) ==
    /\ pc[p] = "idle"
    /\ \E a \in NearbyArgs :
        /\ Begin(p, "place_nearby", a)
        /\ CallProvider(p, "places_nearby", <<a.location, a.radius, a.place_type>>, <<>>)
    /\ UNCHANGED <<module_state, resp, printed>>

place_nearby_answered(p, answers) ==
    /\ Awaiting(p, "place_nearby")
    /\ \E results \in answers :
        /\ ProviderReturns(p, results)
        /\ Finish(p, place_nearby_shape(results))
    /\ UNCHANGED <<module_state, tool, args, calls, printed>>

\* the provider's answer is any of those it may give
place_nearby_return(p) == place_nearby_answered(p, NearbyResponses)

\* src/server.py place_details
place_details_call(p) ==
    /\ pc[p] = "idle"
    /\ \E a \in DetailsArgs :
        /\ Begin(p, "place_details", a)
        /\ CallProvider(p, "place",
                        <<a.place_id, Param(a, "fields", place_details_defaults)>>, <<>>)
    /\ UNCHANGED <<module_state, resp, printed>>

place_details_answered(p, answers) ==
    /\ Awaiting(p, "place_details")
    /\ \E results \in answers :
        /\ ProviderReturns(p, results)
        /\ Finish(p, place_details_shape(results))
    /\ UNCHANGED <<module_state, tool, args, calls, printed>>

\* the provider's answer is any of those it may give
place_details_return(p) == place_details_answered(p, DetailsResponses)

\* src/maps_agent/gmaps/places.py place_nearby
places_place_nearby_call(p) ==
    /\ pc[p] = "idle"
    /\ \E a \in NearbyArgs :
        /\ Begin(p, "places.place_nearby", a)
        /\ CallProvider(p, "places_nearby", <<a.location, a.radius, a.place_type>>, <<>>)
    /\ UNCHANGED <<module_state, resp, printed>>

places_place_nearby_return(p) ==
    /\ Awaiting(p, "places.place_nearby")
    /\ \E results \in NearbyResponses :
        /\ ProviderReturns(p, results)
        /\ Finish(p, place_nearby_shape(results))
    /\ UNCHANGED <<module_state, tool, args, calls, printed>>

\* src/maps_agent/gmaps/places.py place_details
places_place_details_call(p) ==
    /\ pc[p] = "idle"
    /\ \E a \in DetailsArgs :
        /\ Begin(p, "places.place_details", a)
        /\ CallProvider(p, "place",
                        <<a.place_id, Param(a, "fields", default_places_place_details_fields)>>,
                        <<>>)
    /\ UNCHANGED <<module_state, resp, printed>>

places_place_details_return(p) ==
    /\ Awaiting(p, "places.place_details")
    /\ \E results \in DetailsResponses :
        /\ ProviderReturns(p, results)
        /\ Finish(p, places_place_details_shape(results))
    /\ UNCHANGED <<module_state, tool, args, calls, printed>>

\* src/maps_agent/gmaps/geocoding.py geocoding: the validation message is
\* printed, then the argument expression of gmaps.directions(origin, ...)
\* reads the undefined name origin: NameError, and the provider is not called
geocoding(p) ==
    /\ pc[p] = "idle"
    /\ \E a \in GeocodingArgs :
        LET mode == Param(a, "mode", "driving")
        IN  /\ Begin(p, "geocoding.geocoding", a)
            /\ printed' = [printed EXCEPT ![p] =
                              IF assert_mode(mode, allowed_modes) THEN @
                              ELSE Append(@, assert_mode_message(mode, allowed_modes))]
            /\ Finish(p, Raise("NameError"))
    /\ UNCHANGED <<module_state, calls, resp>>

\* import of src/maps_agent/gmaps/geocoding.py: its last statement calls the
\* undefined name directions
geocoding_import(p) ==
    /\ pc[p] = "idle"
    /\ Begin(p, "import geocoding", <<>>)
    /\ Finish(p, Raise("NameError"))
    /\ UNCHANGED <<module_state, calls, resp, printed>>

\* import of src/maps_agent/gmaps/places.py, up to the provider call of its
\* first print(find_place(...))
places_import_begin(p) ==
    /\ pc[p] = "idle"
    /\ Begin(p, "import places", <<>>)
    /\ printed' = [printed EXCEPT ![p] = @ \o PlacesScript[1].heading]
    /\ CallProvider(p, PlacesScript[1].method, PlacesScript[1].pos, <<>>)
    /\ UNCHANGED <<module_state, resp>>

\* import of src/maps_agent/gmaps/places.py, from the answer to the provider
\* call of one statement to the provider call of the next: the function's
\* value is printed (recorded as the value), or its exception ends the import
places_import_step(p) ==
    /\ Awaiting(p, "import places")
    /\ LET k == Len(calls[p])
           stmt == PlacesScript[k]
       IN  \E results \in ScriptAnswers(stmt.fn) :
               LET value == ScriptShape(stmt.fn, results)
               IN  /\ ProviderReturns(p, results)
                   /\ IF value.kind = "raise"
                      THEN /\ Finish(p, value)
                           /\ UNCHANGED <<calls, printed>>
                      ELSE IF k < Len(PlacesScript)
                      THEN /\ printed' = [printed EXCEPT ![p] =
                                             Append(@, value) \o PlacesScript[k + 1].heading]
                           /\ CallProvider(p, PlacesScript[k + 1].method,
                                           PlacesScript[k + 1].pos, <<>>)
                      ELSE /\ printed' = [printed EXCEPT ![p] = Append(@, value)]
                           /\ Finish(p, Imported)
                           /\ UNCHANGED calls
    /\ UNCHANGED <<module_state, tool, args>>

\* the caller takes the outcome; the slot is free for the next invocation
Deliver(p) ==
    /\ pc[p] = "done"
    /\ pc' = [pc EXCEPT ![p] = "idle"]
    /\ tool' = [tool EXCEPT ![p] = ""]
    /\ args' = [args EXCEPT ![p] = <<>>]
    /\ calls' = [calls EXCEPT ![p] = <<>>]
    /\ resp' = [resp EXCEPT ![p] = PyNone]
    /\ printed' = [printed EXCEPT ![p] = <<>>]
    /\ result' = [result EXCEPT ![p] = NoResult]
    /\ UNCHANGED module_state

-----------------------------------------------------------------------------
(* Specification *)

Idle(ps) ==
    /\ procs = ps
    /\ allowed_modes = <<"driving", "walking", "bicycling", "transit">>
    /\ allowed_input_types = <<"textquery", "phonenumber">>
    /\ gmaps = Client
    /\ find_place_defaults = default_find_place_fields
    /\ place_details_defaults = default_place_details_fields
    /\ pc = [p \in ps |-> "idle"]
    /\ tool = [p \in ps |-> ""]
    /\ args = [p \in ps |-> <<>>]
    /\ calls = [p \in ps |-> <<>>]
    /\ resp = [p \in ps |-> PyNone]
    /\ printed = [p \in ps |-> <<>>]
    /\ result = [p \in ps |-> NoResult]

Init == Idle({"t1"})

Next ==
    \/ \E p \in procs : get_directions_call(p)
    \/ \E p \in procs : get_directions_return(p)
    \/ \E p \in procs : agent_get_directions_call(p)
    \/ \E p \in procs : agent_get_directions_return(p)
    \/ \E p \in procs : DirectionTools_directions_call(p)
    \/ \E p \in procs : DirectionTools_directions_return(p)
    \/ \E p \in procs : get_distance_call(p)
    \/ \E p \in procs : get_distance_return(p)
    \/ \E p \in procs : get_geocode_call(p)
    \/ \E p \in procs : get_geocode_return(p)
    \/ \E p \in procs : find_place_call(p)
    \/ \E p \in procs : find_place_return(p)
    \/ \E p \in procs : places_find_place_call(p)
    \/ \E p \in procs : places_find_place_return(p)
    \/ \E p \in procs : place_nearby_call(p)
    \/ \E p \in procs : place_nearby_return(p)
    \/ \E p \in procs : place_details_call(p)
    \/ \E p \in procs : place_details_return(p)
    \/ \E p \in procs : places_place_nearby_call(p)
    \/ \E p \in procs : places_place_nearby_return(p)
    \/ \E p \in procs : places_place_details_call(p)
    \/ \E p \in procs : places_place_details_return(p)
    \/ \E p \in procs : geocoding(p)
    \/ \E p \in procs : geocoding_import(p)
    \/ \E p \in procs : places_import_begin(p)
    \/ \E p \in procs : places_import_step(p)
    \/ \E p \in procs : Deliver(p)

Spec == Init /\ [][Next]_vars

-----------------------------------------------------------------------------
(* Concurrent invocations of the tools of src/server.py.  A tool touches
   nothing but its own locals between its provider call and its return, so
   interleaving invocations at the provider call covers every schedule a host
   (event loop or thread pool) can produce.  The steps are those of Spec; the
   arguments and the provider's answers are kept to a few per tool so that
   several invocations can be followed together. *)

MaxConcurrent == 2

Invocations == {"c" \o ToString(i) : i \in 1..MaxConcurrent}

\* the arguments of invocation p are among the few followed: enum arguments
\* omitted or invalid, fields omitted
FewInputs(p) ==
    /\ tool[p] \in {"get_directions", "get_distance", "agent.get_directions",
                   "DirectionTools.directions"}
       => /\ args[p].origin = "Oz"
          /\ "mode" \in DOMAIN args[p] => args[p].mode = "flying"
    /\ tool[p] = "get_geocode" => args[p].address = "Oz"
    /\ tool[p] = "find_place"
       => /\ args[p].input = "Googleplex"
          /\ "fields" \notin DOMAIN args[p]
          /\ "input_type" \in DOMAIN args[p] => args[p].input_type = "address"
    /\ tool[p] = "place_nearby" => args[p].radius = 1000
    /\ tool[p] = "place_details" => "fields" \notin DOMAIN args[p]

ConcInputs == \A p \in procs : FewInputs(p)

ConcInit == Idle(Invocations)

ConcNext ==
    \/ (\E p \in procs : get_directions_call(p)) /\ ConcInputs'
    \/ \E p \in procs : get_directions_answered(p, FewAnswers("get_directions"))
    \/ (\E p \in procs : get_distance_call(p)) /\ ConcInputs'
    \/ \E p \in procs : get_distance_answered(p, FewAnswers("get_distance"))
    \/ (\E p \in procs : get_geocode_call(p)) /\ ConcInputs'
    \/ \E p \in procs : get_geocode_answered(p, FewAnswers("get_geocode"))
    \/ (\E p \in procs : find_place_call(p)) /\ ConcInputs'
    \/ \E p \in procs : find_place_answered(p, FewAnswers("find_place"))
    \/ (\E p \in procs : place_nearby_call(p)) /\ ConcInputs'
    \/ \E p \in procs : place_nearby_answered(p, FewAnswers("place_nearby"))
    \/ (\E p \in procs : place_details_call(p)) /\ ConcInputs'
    \/ \E p \in procs : place_details_answered(p, FewAnswers("place_details"))
    \/ \E p \in procs : Deliver(p)

ConcSpec == ConcInit /\ [][ConcNext]_vars

-----------------------------------------------------------------------------
(* The text normaliser on its own: strip_html_regex applied to a text, and
   applied again to its own output *)

MaxText == 4

\* '<', '>', space, newline and an ordinary character
Alphabet == {"<", ">", " ", "\n", "a"}

\* the instruction "<b>Turn  left</b>"
TurnLeft ==
    <<"<", "b", ">", "T", "u", "r", "n", " ", " ", "l", "e", "f", "t", "<", "/", "b", ">">>

Texts == UNION {[1..n -> Alphabet] : n \in 0..MaxText} \cup {TurnLeft}

NormInit ==
    /\ procs = {"n1"}
    /\ allowed_modes = <<"driving", "walking", "bicycling", "transit">>
    /\ allowed_input_types = <<"textquery", "phonenumber">>
    /\ gmaps = Client
    /\ find_place_defaults = default_find_place_fields
    /\ place_details_defaults = default_place_details_fields
    /\ pc = [p \in procs |-> "idle"]
    /\ tool = [p \in procs |-> "strip_html_regex"]
    /\ \E html_text \in Texts : args = [p \in procs |-> [html_text |-> html_text]]
    /\ calls = [p \in procs |-> <<>>]
    /\ resp = [p \in procs |-> PyNone]
    /\ printed = [p \in procs |-> <<>>]
    /\ result = [p \in procs |-> NoResult]

\* strip_html_regex(html_text) returns
strip_html_regex_call(p) ==
    /\ pc[p] = "idle"
    /\ tool[p] = "strip_html_regex"
    /\ Finish(p, Str(strip_html_regex(args[p].html_text)))
    /\ UNCHANGED <<module_state, tool, args, calls, resp, printed>>

\* the text returned is handed to strip_html_regex once more
strip_html_regex_again(p) ==
    /\ pc[p] = "done"
    /\ tool[p] = "strip_html_regex"
    /\ args' = [args EXCEPT ![p] = [html_text |-> result[p].val]]
    /\ pc' = [pc EXCEPT ![p] = "idle"]
    /\ result' = [result EXCEPT ![p] = NoResult]
    /\ UNCHANGED <<module_state, tool, calls, resp, printed>>

NormNext ==
    \/ \E p \in procs : strip_html_regex_call(p)
    \/ \E p \in procs : strip_html_regex_again(p)

NormSpec == NormInit /\ [][NormNext]_vars

-----------------------------------------------------------------------------
(* The provider call fails.  The googlemaps client raises when the request
   cannot be completed.  No tool of src/server.py wraps its provider call in
   a handler (the only handlers are those of the validators and the
   IndexError handler of find_place), so the exception leaves the tool. *)

\* googlemaps.exceptions: ApiError, TransportError, Timeout
ProviderErrors == {"ApiError", "TransportError", "Timeout"}

\* the outcome of a provider call that raised exc instead of returning
Raised(exc) == [py |-> "raise", v |-> exc]

\* gmaps.<method>(...) raises: nothing after the call runs and the exception
\* propagates out of the tool
provider_raises(p) ==
    /\ pc[p] = "awaiting"
    /\ \E exc \in ProviderErrors :
        /\ resp' = [resp EXCEPT ![p] = Raised(exc)]
        /\ Finish(p, Raise(exc))
    /\ UNCHANGED <<module_state, tool, args, calls, printed>>

FailNext ==
    \/ \E p \in procs : get_directions_call(p)
    \/ \E p \in procs : get_directions_return(p)
    \/ \E p \in procs : get_distance_call(p)
    \/ \E p \in procs : get_distance_return(p)
    \/ \E p \in procs : get_geocode_call(p)
    \/ \E p \in procs : get_geocode_return(p)
    \/ \E p \in procs : find_place_call(p)
    \/ \E p \in procs : find_place_return(p)
    \/ \E p \in procs : place_nearby_call(p)
    \/ \E p \in procs : place_nearby_return(p)
    \/ \E p \in procs : place_details_call(p)
    \/ \E p \in procs : place_details_return(p)
    \/ \E p \in procs : provider_raises(p)
    \/ \E p \in procs : Deliver(p)

FailSpec == Init /\ [][FailNext]_vars

-----------------------------------------------------------------------------
(* The three directions shapers side by side: get_directions of
   src/server.py, get_directions of src/maps_agent/server.py and
   DirectionTools.directions of src/maps_agent/gmaps/directions_v2.py, each
   in an invocation of its own, so that invocations given the same arguments
   and the same answer can be compared. *)

DirectionsShapers == {"get_directions", "agent.get_directions", "DirectionTools.directions"}

EquivNext ==
    \/ (\E p \in procs : get_directions_call(p)) /\ ConcInputs'
    \/ \E p \in procs : get_directions_answered(p, FewAnswers("get_directions"))
    \/ (\E p \in procs : agent_get_directions_call(p)) /\ ConcInputs'
    \/ \E p \in procs : AgentDirectionsAnswered(p, "agent.get_directions",
                                                FewAnswers("get_directions"))
    \/ (\E p \in procs : DirectionTools_directions_call(p)) /\ ConcInputs'
    \/ \E p \in procs : AgentDirectionsAnswered(p, "DirectionTools.directions",
                                                FewAnswers("get_directions"))
    \/ \E p \in procs : Deliver(p)

EquivSpec == ConcInit /\ [][EquivNext]_vars

\* the parameters of googlemaps.Client.directions a call binds: mode is the
\* third positional parameter, passed by position in src/server.py and by
\* keyword in src/maps_agent
BoundCall(c) ==
    [method |-> c.method,
     origin |-> c.pos[1],
     destination |-> c.pos[2],
     mode |-> IF Len(c.pos) >= 3 THEN c.pos[3] ELSE c.kw.mode]

\* the provider calls invocation p has made, as the provider sees them
BoundCalls(p) == [i \in 1..Len(calls[p]) |-> BoundCall(calls[p][i])]

-----------------------------------------------------------------------------
(* Properties *)

\* the allowed sets as the specification states them
TravelModes == {"driving", "walking", "bicycling", "transit"}
PlaceQueryTypes == {"textquery", "phonenumber"}

ServerTools == {"get_directions", "get_distance", "get_geocode", "find_place",
                "place_nearby", "place_details"}

ModeOf(p) == Param(args[p], "mode", "driving")
InputTypeOf(p) == Param(args[p], "input_type", "textquery")

\* the invocation validates an enum argument and the argument fails it
FailsValidation(p) ==
    \/ /\ tool[p] \in {"get_directions", "get_distance", "agent.get_directions",
                       "DirectionTools.directions", "geocoding.geocoding"}
       /\ ModeOf(p) \notin TravelModes
    \/ /\ tool[p] \in {"find_place", "places.find_place"}
       /\ InputTypeOf(p) \notin PlaceQueryTypes

\* the outcome is the JSON object {"error": <message>}
IsErrorPayload(r) == r.kind = "json" /\ DOMAIN r.val = {"error"}

\* the outcome is a JSON object that has the key "error"
HasErrorKey(r) == r.kind = "json" /\ "error" \in DOMAIN r.val

\* C1: in src/server.py, get_directions and get_distance called with a mode
\* outside {driving, walking, bicycling, transit} end with {"error": <message>}
\* and never call the provider, whatever origin and destination are.
C1_InvalidModeRejected ==
    \A p \in procs :
        (tool[p] \in {"get_directions", "get_distance"} /\ ModeOf(p) \notin TravelModes)
        => /\ pc[p] = "done"
           /\ calls[p] = <<>>
           /\ IsErrorPayload(result[p])

C1_Witness ==
    \E p \in procs :
        /\ tool[p] = "get_distance"
        /\ ModeOf(p) = "Driving"
        /\ pc[p] = "done"
        /\ calls[p] = <<>>
        /\ IsErrorPayload(result[p])

\* C2: in src/server.py, find_place called with an input_type outside
\* {textquery, phonenumber} ends with {"error": <message>} and never calls
\* gmaps.find_place, whatever input and fields are.
C2_InvalidInputTypeRejected ==
    \A p \in procs :
        (tool[p] = "find_place" /\ InputTypeOf(p) \notin PlaceQueryTypes)
        => /\ pc[p] = "done"
           /\ calls[p] = <<>>
           /\ IsErrorPayload(result[p])

C2_Witness ==
    \E p \in procs :
        /\ tool[p] = "find_place"
        /\ InputTypeOf(p) = "TextQuery"
        /\ "fields" \in DOMAIN args[p]
        /\ pc[p] = "done"
        /\ calls[p] = <<>>
        /\ IsErrorPayload(result[p])

\* C3: at every call site that validates a travel mode or a query type
\* (those of src/maps_agent included) a validation failure short-circuits the
\* operation: the provider is not called and the caller receives a
\* structured error payload.
C3_ValidationShortCircuits ==
    \A p \in procs :
        FailsValidation(p)
        => /\ calls[p] = <<>>
           /\ pc[p] = "done"
           /\ IsErrorPayload(result[p])

\* C4: every tool of src/server.py, given a provider answer of the right
\* container shape with fields missing or lists empty, ends by returning a
\* JSON object or a descriptive string, never by raising.
C4_NeverRaisesOnMissingFields ==
    \A p \in procs :
        (tool[p] \in ServerTools /\ pc[p] = "done" /\ Truthy(resp[p]))
        => result[p].kind \in {"json", "str"}

\* C5 as stated: a value returned by a tool of src/server.py is a JSON
\* object with the key "error" if and only if the invocation failed
\* validation.
C5_ErrorKeyIffValidationFailed ==
    \A p \in procs :
        (tool[p] \in ServerTools /\ pc[p] = "done")
        => (HasErrorKey(result[p]) <=> FailsValidation(p))

\* the provider returned a place named "error" to place_nearby
ReturnedPlaceNamedError(p) ==
    /\ Truthy(resp[p])
    /\ \E i \in DOMAIN Get(resp[p].v, "results", <<>>) :
           /\ "name" \in DOMAIN resp[p].v.results[i]
           /\ resp[p].v.results[i].name = "error"

\* C5 as amended: for every tool of src/server.py but place_nearby the
\* returned value is a JSON object with the key "error" if and only if the
\* invocation failed validation, and that object is then {"error": <message>};
\* the mapping place_nearby returns has the key "error" only when the provider
\* returned a place of that name, and has it whenever it maps such a place.
C5_ErrorKeyIffValidationFailedButNearby ==
    \A p \in procs :
        (tool[p] \in ServerTools /\ pc[p] = "done")
        => /\ tool[p] # "place_nearby"
              => /\ HasErrorKey(result[p]) <=> FailsValidation(p)
                 /\ HasErrorKey(result[p]) => IsErrorPayload(result[p])
           /\ tool[p] = "place_nearby"
              => /\ HasErrorKey(result[p]) => ReturnedPlaceNamedError(p)
                 /\ (result[p].kind = "json" /\ ReturnedPlaceNamedError(p))
                    => HasErrorKey(result[p])

C5_Witness ==
    \E p \in procs :
        /\ tool[p] = "place_nearby"
        /\ pc[p] = "done"
        /\ HasErrorKey(result[p])
        /\ ~FailsValidation(p)

\* get_directions of src/server.py has ended, its mode was valid and the
\* provider returned at least one route
DirectionsAnswered(p) ==
    /\ tool[p] = "get_directions"
    /\ pc[p] = "done"
    /\ ModeOf(p) \in TravelModes
    /\ Truthy(resp[p])

\* the route has what the totals and the steps are read from: a first leg
\* with distance and duration text and, in every leg, steps with distance and
\* duration text
TotalsAndStepsPresent(route) ==
    /\ "legs" \in DOMAIN route
    /\ Len(route.legs) > 0
    /\ HasText(route.legs[1], "distance")
    /\ HasText(route.legs[1], "duration")
    /\ \A j \in DOMAIN route.legs :
           /\ "steps" \in DOMAIN route.legs[j]
           /\ \A k \in DOMAIN route.legs[j].steps :
                  /\ HasText(route.legs[j].steps[k], "distance")
                  /\ HasText(route.legs[j].steps[k], "duration")

RECURSIVE SumOfStepCounts(_)
SumOfStepCounts(legs) ==
    IF Len(legs) = 0 THEN 0 ELSE Len(Head(legs).steps) + SumOfStepCounts(Tail(legs))

\* C6: for get_directions with a valid mode and a non-empty answer only the
\* first route is used: total_distance and total_duration are the texts of its
\* leg[0], and steps is the concatenation, in leg order then step order, of
\* the steps of all its legs, entry k carrying the texts of the k-th step.
C6_TotalsOfFirstLegStepsOfAllLegs ==
    \A p \in procs :
        (DirectionsAnswered(p) /\ TotalsAndStepsPresent(resp[p].v[1]))
        => LET route == resp[p].v[1]
               steps == AllSteps(route.legs)
           IN  /\ result[p].kind = "json"
               /\ result[p].val.total_distance = route.legs[1].distance.text
               /\ result[p].val.total_duration = route.legs[1].duration.text
               /\ Len(result[p].val.steps) = SumOfStepCounts(route.legs)
               /\ \A k \in DOMAIN steps :
                      /\ result[p].val.steps[k].distance = steps[k].distance.text
                      /\ result[p].val.steps[k].duration = steps[k].duration.text

\* the text has a <...> substring: a '<' and, later on the same line, a '>'
HasTag(s) == \E i \in DOMAIN s : s[i] = "<" /\ TagEndFrom(s, i + 1) > 0

\* the text has a run of two or more spaces
HasSpaceRun(s) == \E i \in DOMAIN s : i < Len(s) /\ s[i] = " " /\ s[i + 1] = " "

\* C7: every step instruction get_directions of src/server.py returns has
\* been through the text normaliser: it has no <...> substring and no run of
\* two or more spaces.
C7_InstructionsNormalised ==
    \A p \in procs :
        (DirectionsAnswered(p) /\ result[p].kind = "json")
        => \A k \in DOMAIN result[p].val.steps :
               /\ ~HasTag(result[p].val.steps[k].instruction)
               /\ ~HasSpaceRun(result[p].val.steps[k].instruction)

\* C8: get_directions with a valid mode returns the string "No directions
\* found for the specified locations." whenever the provider returns no
\* routes (an empty list, None, any falsy value), and in no other case.
C8_NoDirectionsIffNoRoutes ==
    \A p \in procs :
        (tool[p] = "get_directions" /\ pc[p] = "done")
        => (result[p] = Str("No directions found for the specified locations.")
            <=> (ModeOf(p) \in TravelModes /\ ~Truthy(resp[p])))

C8_Witness ==
    \E p \in procs :
        /\ tool[p] = "get_directions"
        /\ pc[p] = "done"
        /\ ModeOf(p) \in TravelModes
        /\ resp[p] = Py(<<>>)
        /\ result[p] = Str("No directions found for the specified locations.")

\* C9: the route summary is optional: get_directions emits it under
\* "summary" when the first route carries one, and still returns a result
\* with total_distance, total_duration and steps when it carries none.
C9_SummaryOptional ==
    \A p \in procs :
        (DirectionsAnswered(p) /\ RouteError(resp[p].v[1], FALSE) = "")
        => /\ result[p].kind = "json"
           /\ {"total_distance", "total_duration", "steps"} \subseteq DOMAIN result[p].val
           /\ "summary" \in DOMAIN resp[p].v[1]
              => /\ "summary" \in DOMAIN result[p].val
                 /\ result[p].val.summary = resp[p].v[1].summary

\* the cases in which get_distance is to fail soft
DistanceFailsSoft(r) ==
    \/ ~Truthy(r)
    \/ Len(Get(r.v, "rows", <<>>)) = 0
    \/ Len(Get(r.v.rows[1], "elements", <<>>)) = 0
    \/ "distance" \notin DOMAIN r.v.rows[1].elements[1]
    \/ "duration" \notin DOMAIN r.v.rows[1].elements[1]
    \/ Get(r.v.rows[1].elements[1], "status", "") = "ZERO_RESULTS"

\* C10: get_distance with a valid mode returns a descriptive plain string
\* when the answer is falsy, has no rows, has a first row without elements,
\* has a first element lacking distance or duration, or has a first element
\* of status ZERO_RESULTS; in every remaining case it returns a JSON object
\* with exactly the keys total_distance and total_duration, taken from
\* rows[0].elements[0].
C10_DistanceFailsSoftElseTotals ==
    \A p \in procs :
        (tool[p] = "get_distance" /\ pc[p] = "done" /\ ModeOf(p) \in TravelModes)
        => IF DistanceFailsSoft(resp[p])
           THEN result[p].kind = "str"
           ELSE /\ result[p].kind = "json"
                /\ DOMAIN result[p].val = {"total_distance", "total_duration"}
                /\ result[p].val.total_distance = resp[p].v.rows[1].elements[1].distance.text
                /\ result[p].val.total_duration = resp[p].v.rows[1].elements[1].duration.text

\* find_place of src/server.py has ended after a valid input_type
FindPlaceAnswered(p) ==
    /\ tool[p] = "find_place"
    /\ pc[p] = "done"
    /\ InputTypeOf(p) \in PlaceQueryTypes

\* the provider's answer holds no candidates: it is falsy, has no candidates
\* field or has an empty candidates list
NoCandidates(r) == ~Truthy(r) \/ Len(Get(r.v, "candidates", <<>>)) = 0

\* C11: find_place with a valid input_type returns exactly "No such place
\* found" whenever the provider's answer holds no candidates (empty list,
\* no candidates field, empty or falsy answer); it returns neither null nor
\* raises in these cases.
C11_NoCandidatesNoSuchPlace ==
    \A p \in procs :
        (FindPlaceAnswered(p) /\ NoCandidates(resp[p]))
        => result[p] = Str("No such place found")

\* place_nearby of src/server.py has ended
NearbyAnswered(p) == tool[p] = "place_nearby" /\ pc[p] = "done"

\* C12: place_nearby keeps two empty outcomes apart: a falsy answer (None or
\* an empty object) gives the string "Nothing nearby that matches the search
\* criteria was found.", a non-falsy answer with an empty results list gives
\* the empty JSON mapping, and the string is never returned for a non-falsy
\* answer.
C12_NearbyEmptyOutcomesDistinct ==
    \A p \in procs :
        NearbyAnswered(p)
        => /\ ~Truthy(resp[p])
              => result[p] = Str("Nothing nearby that matches the search criteria was found.")
           /\ (Truthy(resp[p]) /\ Len(Get(resp[p].v, "results", <<>>)) = 0)
              => (result[p].kind = "json" /\ DOMAIN result[p].val = {})
           /\ Truthy(resp[p]) => result[p].kind # "str"

C12_Witness ==
    \E p \in procs :
        /\ NearbyAnswered(p)
        /\ resp[p] = Py([results |-> <<>>, status |-> "OK"])
        /\ result[p].kind = "json"
        /\ DOMAIN result[p].val = {}

\* every candidate of the list carries a name and a place_id
NamedCandidates(l) ==
    \A i \in DOMAIN l : {"name", "place_id"} \subseteq DOMAIN l[i]

\* C13: for a non-falsy answer whose candidates carry name and place_id the
\* mapping place_nearby returns has exactly the candidates' names as keys and
\* maps each name to the place_id of the last candidate of that name; no
\* candidate is skipped and no other place_id appears.
C13_NearbyMappingLastWins ==
    \A p \in procs :
        (NearbyAnswered(p) /\ Truthy(resp[p])
            /\ NamedCandidates(Get(resp[p].v, "results", <<>>)))
        => LET l == Get(resp[p].v, "results", <<>>)
           IN  /\ result[p].kind = "json"
               /\ DOMAIN result[p].val = {l[i].name : i \in DOMAIN l}
               /\ \A i \in DOMAIN l :
                      (\A j \in DOMAIN l : j > i => l[j].name # l[i].name)
                      => result[p].val[l[i].name] = l[i].place_id
               /\ \A n \in DOMAIN result[p].val :
                      result[p].val[n] \in {l[i].place_id : i \in DOMAIN l}

C13_Witness ==
    \E p \in procs :
        /\ NearbyAnswered(p)
        /\ Truthy(resp[p])
        /\ "results" \in DOMAIN resp[p].v
        /\ resp[p].v.results = <<[name |-> "Cafe", place_id |-> "p1"],
                                 [name |-> "Cafe", place_id |-> "p2"]>>
        /\ result[p] = Json([Cafe |-> "p2"])

\* place_details of src/server.py has ended
DetailsAnswered(p) == tool[p] = "place_details" /\ pc[p] = "done"

\* the result object of the provider's answer, {} when the answer has none
DetailsOf(r) == Get(r.v, "result", <<>>)

\* the result object carries the field with a value that is not null
HasValue(details, k) == k \in DOMAIN details /\ details[k] # PyNone

\* C14: place_details selects its not-found string by a fixed priority,
\* whatever fields were requested: a falsy answer gives "No such place
\* found."; otherwise an absent or empty result object gives "No details
\* found for the specified place."; otherwise a result object whose name is
\* absent or null gives "Essential place details (e.g. name) are missing.".
C14_DetailsNotFoundPriority ==
    \A p \in procs :
        DetailsAnswered(p)
        => /\ ~Truthy(resp[p]) => result[p] = Str("No such place found.")
           /\ (Truthy(resp[p]) /\ DOMAIN DetailsOf(resp[p]) = {})
              => result[p] = Str("No details found for the specified place.")
           /\ (Truthy(resp[p]) /\ DOMAIN DetailsOf(resp[p]) # {}
                  /\ ~HasValue(DetailsOf(resp[p]), "name"))
              => result[p] = Str("Essential place details (e.g. name) are missing.")

C14_Witness ==
    \E p \in procs :
        /\ DetailsAnswered(p)
        /\ "fields" \in DOMAIN args[p]
        /\ Truthy(resp[p])
        /\ DOMAIN DetailsOf(resp[p]) = {"formatted_address"}
        /\ result[p] = Str("Essential place details (e.g. name) are missing.")

\* C15: whenever the result object carries a name that is present and not
\* null, place_details returns a JSON object whose keys are among the seven
\* detail fields, that has no null value, that carries every non-null
\* provider value of those fields unchanged, and that has user_ratings_total
\* 0 when the provider's answer has no rating count.
C15_NamedDetailsEmitted ==
    \A p \in procs :
        (DetailsAnswered(p) /\ Truthy(resp[p]) /\ HasValue(DetailsOf(resp[p]), "name"))
        => LET details == DetailsOf(resp[p])
               given == {k \in DetailFields : HasValue(details, k)}
           IN  /\ result[p].kind = "json"
               /\ given \subseteq DOMAIN result[p].val
               /\ DOMAIN result[p].val \subseteq given \cup {"user_ratings_total"}
               /\ \A k \in given : result[p].val[k] = details[k].v
               /\ "user_ratings_total" \notin DOMAIN details
                  => /\ "user_ratings_total" \in DOMAIN result[p].val
                     /\ result[p].val.user_ratings_total = 0

\* get_geocode of src/server.py has ended
GeocodeAnswered(p) == tool[p] = "get_geocode" /\ pc[p] = "done"

\* C16: get_geocode returns exactly "Address not found" when the provider
\* returns an empty or falsy result list, and otherwise a JSON object with
\* exactly the keys lat and lng, whose values are those of the first result
\* only.
C16_GeocodeFirstResultOrNotFound ==
    \A p \in procs :
        GeocodeAnswered(p)
        => IF ~Truthy(resp[p])
           THEN result[p] = Str("Address not found")
           ELSE /\ result[p].kind = "json"
                /\ DOMAIN result[p].val = {"lat", "lng"}
                /\ result[p].val.lat = resp[p].v[1].geometry.location.lat
                /\ result[p].val.lng = resp[p].v[1].geometry.location.lng

\* the messages as the caller is to read them
ModeMessage(mode) ==
    "ERROR: '" \o mode \o "' is not one of the allowed modes: "
        \o "['driving', 'walking', 'bicycling', 'transit']"

InputTypeMessage(input_type) ==
    "ERROR: '" \o input_type \o "' is not one of the allowed inpute types: "
        \o "['textquery', 'phonenumber']"

\* C17: assert_mode fails exactly for the strings outside {driving, walking,
\* bicycling, transit} and assert_input_type exactly for those outside
\* {textquery, phonenumber}; a member of the set passes (the tool goes on to
\* its provider call), and a failure's message, which names the offending
\* value and the whole allowed set, is the value of "error" in the payload
\* the tool returns.
C17_ValidatorsExactAndMessageReturned ==
    /\ \A m \in Modes : assert_mode(m, allowed_modes) <=> m \in TravelModes
    /\ \A t \in InputTypes :
           assert_input_type(t, allowed_input_types) <=> t \in PlaceQueryTypes
    /\ \A p \in procs :
           /\ (tool[p] \in {"get_directions", "get_distance"} /\ pc[p] # "idle")
              => IF ModeOf(p) \in TravelModes
                 THEN Len(calls[p]) = 1 /\ ~HasErrorKey(result[p])
                 ELSE result[p] = Json([error |-> ModeMessage(ModeOf(p))])
           /\ (tool[p] = "find_place" /\ pc[p] # "idle")
              => IF InputTypeOf(p) \in PlaceQueryTypes
                 THEN Len(calls[p]) = 1 /\ ~HasErrorKey(result[p])
                 ELSE result[p] = Json([error |-> InputTypeMessage(InputTypeOf(p))])

C17_Witness ==
    \E p \in procs :
        /\ tool[p] = "get_distance"
        /\ pc[p] = "done"
        /\ ModeOf(p) = "flying"
        /\ result[p].kind = "json"
        /\ result[p].val.error =
              "ERROR: 'flying' is not one of the allowed modes: ['driving', 'walking', 'bicycling', 'transit']"

\* strip_html_regex has returned
Normalised(p) == tool[p] = "strip_html_regex" /\ pc[p] = "done"

\* C18: the text normaliser is idempotent: applied to its own output it
\* returns that output unchanged, for every text over '<', '>', space,
\* newline and an ordinary character.
C18_NormaliserIdempotent ==
    \A p \in procs :
        Normalised(p) => strip_html_regex(result[p].val) = result[p].val

C18_Witness ==
    \E p \in procs :
        /\ Normalised(p)
        /\ args[p].html_text = <<" ", "<", ">", " ">>
        /\ result[p].val = <<" ">>

\* the text with every <...> substring deleted
RECURSIVE DeleteTags(_)
DeleteTags(s) ==
    IF Len(s) = 0 THEN <<>>
    ELSE IF s[1] = "<" /\ TagEndFrom(s, 2) > 0
         THEN DeleteTags(SubSeq(s, TagEndFrom(s, 2) + 1, Len(s)))
         ELSE <<s[1]>> \o DeleteTags(Tail(s))

\* C19: the normaliser's output is the input with every <...> substring
\* deleted and every run of two or more spaces collapsed into one, nothing
\* else added: "<b>Turn  left</b>" gives "Turn left".
C19_TagsDeletedSpacesCollapsed ==
    \A p \in procs :
        Normalised(p) => result[p].val = SubSpaces(DeleteTags(args[p].html_text))

\* the one provider call a tool of src/server.py is to make for its arguments
ExpectedCall(p) ==
    LET a == args[p]
    IN  CASE tool[p] = "get_directions" ->
                 [method |-> "directions",
                  pos |-> <<a.origin, a.destination, ModeOf(p)>>, kw |-> <<>>]
          [] tool[p] = "get_distance" ->
                 [method |-> "distance_matrix",
                  pos |-> <<a.origin, a.destination, ModeOf(p)>>, kw |-> <<>>]
          [] tool[p] = "get_geocode" ->
                 [method |-> "geocode", pos |-> <<a.address>>, kw |-> <<>>]
          [] tool[p] = "find_place" ->
                 [method |-> "find_place",
                  pos |-> <<a.input, InputTypeOf(p),
                            Param(a, "fields",
                                  <<"place_id", "formatted_address", "name", "geometry",
                                    "types", "rating">>)>>,
                  kw |-> <<>>]
          [] tool[p] = "place_nearby" ->
                 [method |-> "places_nearby",
                  pos |-> <<a.location, a.radius, a.place_type>>, kw |-> <<>>]
          [] tool[p] = "place_details" ->
                 [method |-> "place",
                  pos |-> <<a.place_id,
                            Param(a, "fields",
                                  <<"name", "formatted_address", "formatted_phone_number",
                                    "website", "types", "rating", "user_ratings_total">>)>>,
                  kw |-> <<>>]

\* the invocation has made exactly the expected call; while the call is in
\* flight there is no result yet, and once it is over the tool has returned
OneCallThenReturn(p) ==
    /\ pc[p] = "awaiting" => (calls[p] = <<ExpectedCall(p)>> /\ result[p] = NoResult)
    /\ pc[p] = "done"
       => (calls[p] = <<ExpectedCall(p)>> /\ result[p].kind \in {"json", "str", "none"})

\* an invocation of a tool of src/server.py leaves its provider call only by
\* ending, without another call
EndsWhenProviderReturns ==
    \A p \in procs :
        (tool[p] \in ServerTools /\ pc[p] = "awaiting")
        => (pc'[p] \in {"awaiting", "done"} /\ calls'[p] = calls[p])

\* C20: every invocation of a tool of src/server.py that passes validation
\* makes exactly one provider call, before any result, with the caller's
\* arguments unchanged and in order (mode and input_type defaulted), and
\* then returns; it makes no second call and ends as soon as its call returns.
C20_OneProviderCallThenReturns ==
    /\ [](\A p \in procs :
             (tool[p] \in ServerTools /\ ~FailsValidation(p)) => OneCallThenReturn(p))
    /\ [][EndsWhenProviderReturns]_vars

\* what the tool of invocation p returns for p's own arguments and the
\* provider's answer to p's own call
OwnResult(p) ==
    CASE tool[p] = "get_directions" ->
             IF ModeOf(p) \in TravelModes THEN get_directions_shape(resp[p])
             ELSE Json([error |-> ModeMessage(ModeOf(p))])
      [] tool[p] = "get_distance" ->
             IF ModeOf(p) \in TravelModes THEN get_distance_shape(resp[p])
             ELSE Json([error |-> ModeMessage(ModeOf(p))])
      [] tool[p] = "get_geocode" -> get_geocode_shape(resp[p])
      [] tool[p] = "find_place" ->
             IF InputTypeOf(p) \in PlaceQueryTypes THEN find_place_shape(resp[p])
             ELSE Json([error |-> InputTypeMessage(InputTypeOf(p))])
      [] tool[p] = "place_nearby" -> place_nearby_shape(resp[p])
      [] tool[p] = "place_details" -> place_details_shape(resp[p])

\* the module-level state is as the import of src/server.py left it
ModuleStateIntact ==
    /\ gmaps = [key |-> "GOOGLE_MAPS_API_KEY"]
    /\ allowed_modes = <<"driving", "walking", "bicycling", "transit">>
    /\ allowed_input_types = <<"textquery", "phonenumber">>
    /\ find_place_defaults =
           <<"place_id", "formatted_address", "name", "geometry", "types", "rating">>
    /\ place_details_defaults =
           <<"name", "formatted_address", "formatted_phone_number", "website", "types",
             "rating", "user_ratings_total">>

\* C21: invocations are independent and stateless: however the steps of
\* concurrent invocations interleave, an invocation has no result before it
\* ends, its result is the function of its own arguments and of the answer to
\* its own call, and the module-level state (client, allowed lists, default
\* fields lists) is never modified.
C21_InvocationsIndependent ==
    /\ ModuleStateIntact
    /\ \A p \in procs :
           IF pc[p] = "done" THEN result[p] = OwnResult(p) ELSE result[p] = NoResult

C21_Witness ==
    \E p, q \in procs :
        /\ p # q
        /\ tool[p] = "find_place" /\ pc[p] = "done" /\ result[p].kind = "json"
        /\ Len(calls[p]) = 1
        /\ calls[p][1].pos[3] = find_place_defaults
        /\ tool[q] = "get_directions" /\ pc[q] = "awaiting"


\* the provider call of invocation p, a tool of src/server.py, has failed
ProviderFailed(p) ==
    /\ tool[p] \in ServerTools
    /\ pc[p] = "done"
    /\ resp[p].py = "raise"

\* C22: when the provider call of a tool of src/server.py raises (network
\* error, outage, timeout), the invocation ends by returning an error
\* payload, distinct from the not-found string, and not by an exception
\* propagating out of the tool.
C22_ProviderFailureIsErrorPayload ==
    \A p \in procs :
        ProviderFailed(p)
        => /\ result[p].kind = "json"
           /\ "error" \in DOMAIN result[p].val


\* get_distance of src/server.py has ended after a valid mode
DistanceAnswered(p) ==
    /\ tool[p] = "get_distance"
    /\ pc[p] = "done"
    /\ ModeOf(p) \in TravelModes

\* the answer has a first element of the first row
HasFirstElement(r) ==
    /\ Truthy(r)
    /\ Len(Get(r.v, "rows", <<>>)) > 0
    /\ Len(Get(r.v.rows[1], "elements", <<>>)) > 0

\* the first element of the first row has both a distance and a duration field
\* and status ZERO_RESULTS
ZeroResultsElement(r) ==
    /\ HasFirstElement(r)
    /\ {"distance", "duration"} \subseteq DOMAIN r.v.rows[1].elements[1]
    /\ Get(r.v.rows[1].elements[1], "status", "") = "ZERO_RESULTS"

\* the other not-found paths: falsy answer, no rows, no elements, or a first
\* element missing distance or duration, whatever its status
GenericNotFound(r) ==
    \/ ~HasFirstElement(r)
    \/ ~({"distance", "duration"} \subseteq DOMAIN r.v.rows[1].elements[1])

\* C23: get_distance returns "No distance information found for the
\* specified locations (ZERO_RESULTS)." exactly when the first element of the
\* first row has both a distance and a duration field and status
\* ZERO_RESULTS; every other not-found path (falsy answer, no rows, no
\* elements, first element missing distance or duration, whatever its
\* status) returns "No distance information found for the specified
\* locations.".
C23_ZeroResultsOnlyWithBothFields ==
    \A p \in procs :
        DistanceAnswered(p)
        => /\ (/\ result[p].kind = "str"
               /\ result[p].val =
                      "No distance information found for the specified locations (ZERO_RESULTS).")
              <=> ZeroResultsElement(resp[p])
           /\ GenericNotFound(resp[p])
              => /\ result[p].kind = "str"
                 /\ result[p].val =
                        "No distance information found for the specified locations."

\* the first element has a distance, a duration and status ZERO_RESULTS, and
\* get_distance has returned the ZERO_RESULTS string
C23_Witness ==
    \E p \in procs :
        /\ DistanceAnswered(p)
        /\ ZeroResultsElement(resp[p])
        /\ result[p] = Str(NoDistanceZeroResults)


\* invocations p and q ran two directions shapers on the same arguments and
\* were given the same answer by the provider, where it was asked
SameDirectionsCase(p, q) ==
    /\ tool[p] \in DirectionsShapers /\ pc[p] = "done"
    /\ tool[q] \in DirectionsShapers /\ pc[q] = "done"
    /\ args[p] = args[q]
    /\ resp[p] = resp[q]

SameOutcome(r1, r2) == r1.kind = r2.kind /\ r1.val = r2.val

\* C24: the three directions shapers are observationally equivalent: for
\* every origin, destination, mode (valid or invalid) and provider answer
\* they make the same provider calls and return the same value.
C24_DirectionsShapersEquivalent ==
    \A p, q \in procs :
        SameDirectionsCase(p, q)
        => /\ BoundCalls(p) = BoundCalls(q)
           /\ SameOutcome(result[p], result[q])

=============================================================================
